---- MODULE Spec2Model ----
(***************************************************************************)
(* Model of tpu-provisioner/internal/controller/creation_controller.go:    *)
(* CreationReconciler.Reconcile, run by a delivery mechanism that may      *)
(* start several invocations, for the same or for different pods, against  *)
(* a store (client.Client), an event recorder and a cloud provider.        *)
(***************************************************************************)
EXTENDS Integers, Sequences, FiniteSets, TLC

(***************************************************************************)
(* Bounds of the model.                                                    *)
(***************************************************************************)
\* Number of Reconcile invocations the delivery mechanism starts.
NumInv == 2
\* Largest number of containers of a pod snapshot.
MaxContainers == 1
\* Largest quantity a container requests of one resource.
MaxQuantity == 1

Invs == 1..NumInv

(***************************************************************************)
(* Go error values.  An error is its Unwrap chain, outermost first; the    *)
(* nil error is the empty chain.                                           *)
(***************************************************************************)
Nil == <<>>

\* fmt.Errorf(msg + ": %w", err)
Wrap(msg, err) == <<msg>> \o err

\* A comparison err == target in place of errors.Is.
ErrorsIsSameValue(err, target) == err = <<target>>
\* errors.Is(err, target): some error of the chain is target.
ErrorsIs(err, target) == \E k \in DOMAIN err : err[k] = target

\* cloud.ErrDuplicateRequest
ErrDuplicateRequest == "ErrDuplicateRequest"

\* Every failed Get taken for a deleted pod.
IsNotFoundAnyError(err) == TRUE
\* apierrors.IsGone in place of apierrors.IsNotFound.
IsGone(err) == ErrorsIs(err, "Gone")
\* apierrors.IsNotFound(err): the API status reason of the error is NotFound.
IsNotFound(err) == ErrorsIs(err, "NotFound")

\* The errors the store's Get answers besides NotFound.
TransientGetErrors == {<<"ServerTimeout">>}
\* context.Canceled / context.DeadlineExceeded, as Get returns them.
ContextErrors == {<<"context canceled">>}
\* The duplicate-request errors of the provider, bare and wrapped.
DuplicateErrors == {<<ErrDuplicateRequest>>, <<"creating node pool", ErrDuplicateRequest>>}
\* Every other failure of the provider.
ProvisioningErrors == {<<"QuotaExceeded">>}

(***************************************************************************)
(* Pod snapshots.                                                          *)
(***************************************************************************)
PodRefs == {"default/pod-a", "default/pod-b"}
\* A reference no invocation was started with yet.
NoReq == "NoReq"

\* cloud.GKETPUNodeSelector, the fixed node selector key.
GKETPUNodeSelector == "cloud.google.com/gke-tpu-topology"
\* r.PodCriteria.ResourceType, the configured resource type.
ResourceType == "google.com/tpu"

Phases == {"Pending", "Running", "Succeeded", "Failed", "Unknown"}
ResourceNames == {ResourceType, "cpu"}
SelectorKeys == {GKETPUNodeSelector, "kubernetes.io/arch"}

\* pod.Status.Conditions, restricted to what the scheduler reports.
ConditionSets ==
    { {},
      {[type |-> "PodScheduled", status |-> "True", reason |-> ""]},
      {[type |-> "PodScheduled", status |-> "False", reason |-> "Unschedulable"]},
      {[type |-> "PodScheduled", status |-> "False", reason |-> "SchedulerError"]} }

\* c.Resources.Requests of one container: resource name -> quantity.
RequestMaps == UNION { [names -> 0..MaxQuantity] : names \in SUBSET ResourceNames }

\* pod.Spec.Containers
ContainerLists == UNION { [1..n -> RequestMaps] : n \in 0..MaxContainers }

\* pod.Spec.NodeSelector, as the set of its keys.
NodeSelectors == SUBSET SelectorKeys

PodSnapshot(ref, phase, conds, containers, sel) ==
    [ref |-> ref, phase |-> phase, conditions |-> conds,
     containers |-> containers, nodeSelector |-> sel]

\* var pod corev1.Pod: the zero value.
ZeroPod == PodSnapshot("", "", {}, <<>>, {})

PodSnapshots(ref) ==
    { PodSnapshot(ref, ph, cs, ct, ns) :
        ph \in Phases, cs \in ConditionSets, ct \in ContainerLists, ns \in NodeSelectors }

(***************************************************************************)
(* The eligibility predicate.                                              *)
(***************************************************************************)
isPending(p) == p.phase = "Pending"

isUnschedulable(p) ==
    \E c \in p.conditions :
        c.type = "PodScheduled" /\ c.status = "False" /\ c.reason = "Unschedulable"

doesRequestResource(p, resourceType) ==
    \E k \in DOMAIN p.containers :
        /\ resourceType \in DOMAIN p.containers[k]
        /\ p.containers[k][resourceType] > 0

hasNodeSelectors(p, key) == key \in p.nodeSelector

\* Line 69 without its resource request test.
ShouldIgnoreNoResource(p) ==
    \/ ~isPending(p)
    \/ ~isUnschedulable(p)
    \/ ~hasNodeSelectors(p, GKETPUNodeSelector)
\* Line 69 without its node selector test.
ShouldIgnoreNoSelector(p) ==
    \/ ~isPending(p)
    \/ ~isUnschedulable(p)
    \/ ~doesRequestResource(p, ResourceType)
\* Line 69: the pod should not trigger a scale up.
ShouldIgnore(p) ==
    \/ ~isPending(p)
    \/ ~isUnschedulable(p)
    \/ ~doesRequestResource(p, ResourceType)
    \/ ~hasNodeSelectors(p, GKETPUNodeSelector)

(***************************************************************************)
(* What Reconcile computes from the answers it gets.                       *)
(***************************************************************************)
\* ctrl.Result{}
ZeroResult == [Requeue |-> FALSE, RequeueAfter |-> 0]

Return(result, e) == [result |-> result, err |-> e]

\* Lines 60-66: what Reconcile returns when r.Get failed with getErr.
GetErrorReturn(getErr) ==
    IF IsNotFound(getErr)
    THEN Return(ZeroResult, Nil)
    ELSE Return(ZeroResult, Wrap("getting pod", getErr))

\* An event as the recorder gets it; the message is a list of text pieces.
Event(p, type, reason, message) ==
    [object |-> p.ref, type |-> type, reason |-> reason, message |-> message]

\* Line 75
EnsuringEvent(p) ==
    Event(p, "Normal", "EventEnsuringNodePool",
          <<"Ensuring Node Pool, triggered by Pod", p.ref>>)

\* Line 80
FailedEvent(p, e) ==
    Event(p, "Warning", "EventFailedEnsuringNodePool",
          <<"Failed to ensure existance of Node Pool: ">> \o e)

\* Line 84
EnsuredEvent(p) ==
    Event(p, "Normal", "EventNodePoolEnsured", <<"Node Pool Ensured.">>)

\* Lines 76-85 without the return of line 81: a failure falls through to line 84.
EventsAfterEnsureFallThrough(p, e) ==
    IF e # Nil
    THEN IF ErrorsIs(e, ErrDuplicateRequest)
         THEN <<>>
         ELSE <<FailedEvent(p, e), EnsuredEvent(p)>>
    ELSE <<EnsuredEvent(p)>>

\* Lines 76-85 without the duplicate-request test of line 77: every error warns.
EventsAfterEnsureWarnAlways(p, e) ==
    IF e # Nil
    THEN <<FailedEvent(p, e)>>
    ELSE <<EnsuredEvent(p)>>

\* Lines 76-85 with the ensured event recorded for a duplicate request too.
EventsAfterEnsureDuplicateEnsured(p, e) ==
    IF e # Nil /\ ~ErrorsIs(e, ErrDuplicateRequest)
    THEN <<FailedEvent(p, e)>>
    ELSE <<EnsuredEvent(p)>>

\* Lines 76-85: the events recorded once EnsureNodePoolForPod answered e.
EventsAfterEnsure(p, e) ==
    IF e # Nil
    THEN IF ErrorsIs(e, ErrDuplicateRequest)
         THEN <<>>
         ELSE <<FailedEvent(p, e)>>
    ELSE <<EnsuredEvent(p)>>

\* Lines 76-87 with the provider's error dropped at line 81.
ReturnAfterEnsureErrorDropped(e) == Return(ZeroResult, Nil)

\* Lines 76-87 without the duplicate-request branch of line 77.
ReturnAfterEnsureNoSuppression(e) == Return(ZeroResult, e)

\* Lines 76-87 asking for a requeue at line 87.
ReturnAfterEnsureRequeue(e) ==
    IF e # Nil /\ ~ErrorsIs(e, ErrDuplicateRequest)
    THEN Return(ZeroResult, e)
    ELSE Return([Requeue |-> TRUE, RequeueAfter |-> 0], Nil)

\* Lines 76-87: what Reconcile returns once EnsureNodePoolForPod answered e.
ReturnAfterEnsure(e) ==
    IF e # Nil
    THEN IF ErrorsIs(e, ErrDuplicateRequest)
         THEN Return(ZeroResult, Nil)
         ELSE Return(ZeroResult, e)
    ELSE Return(ZeroResult, Nil)

(***************************************************************************)
(* State.                                                                  *)
(***************************************************************************)
VARIABLES
    store,          \* the cluster store: pod reference -> <<snapshot>>, or <<>> when absent
    registry,       \* the provider's bookkeeping: pod reference -> none/creating/created
    nodePools,      \* the node pools the provider created, counted per pod reference
    pc,             \* each invocation's position in Reconcile
    req,            \* each invocation's req.NamespacedName
    pod,            \* each invocation's local variable pod
    err,            \* each invocation's err of line 76
    ret,            \* what each invocation returned: (ctrl.Result, error)
    events,         \* the events each invocation emitted, in order
    dropped,        \* the events (their indexes) the recorder failed to record
    getCalls,       \* how often each invocation called r.Get
    providerCalls,  \* how often each invocation called EnsureNodePoolForPod
    doneAtStart,    \* the invocations that had returned when this one started
    getErr,         \* each invocation's err of line 60
    storeAtGet,     \* what the store held under req when the invocation called r.Get
    cancelledAt,    \* the position at which the invocation's ctx was cancelled, or "never"
    afterCancel     \* the side effects each invocation performed with ctx cancelled

vars == <<store, registry, nodePools, pc, req, pod, getErr, storeAtGet, err, ret,
          events, dropped, getCalls, providerCalls, doneAtStart, cancelledAt, afterCancel>>

\* The ctx of invocation i is cancelled.
Cancelled(i) == cancelledAt[i] # "never"

\* The store has no object under the reference.
Absent == <<>>

\* The snapshot of a pod that waits for a TPU node pool.
EligiblePod(ref) ==
    PodSnapshot(ref, "Pending",
                {[type |-> "PodScheduled", status |-> "False", reason |-> "Unschedulable"]},
                <<[n \in {ResourceType} |-> 1]>>, {GKETPUNodeSelector})

\* The same pod once the scheduler placed it.
RunningPod(ref) ==
    PodSnapshot(ref, "Running",
                {[type |-> "PodScheduled", status |-> "True", reason |-> ""]},
                <<[n \in {ResourceType} |-> 1]>>, {GKETPUNodeSelector})

InitInvocations ==
    /\ pc = [i \in Invs |-> "idle"]
    /\ req = [i \in Invs |-> NoReq]
    /\ pod = [i \in Invs |-> ZeroPod]
    /\ err = [i \in Invs |-> Nil]
    /\ ret = [i \in Invs |-> Return(ZeroResult, Nil)]
    /\ events = [i \in Invs |-> <<>>]
    /\ dropped = [i \in Invs |-> {}]
    /\ getCalls = [i \in Invs |-> 0]
    /\ providerCalls = [i \in Invs |-> 0]
    /\ doneAtStart = [i \in Invs |-> {}]
    /\ getErr = [i \in Invs |-> Nil]
    /\ storeAtGet = [i \in Invs |-> <<>>]
    /\ cancelledAt = [i \in Invs |-> "never"]
    /\ afterCancel = [i \in Invs |-> {}]

\* The states the store can hold a pod reference in.
StoreStates(r) == {Absent, <<EligiblePod(r)>>, <<RunningPod(r)>>}

\* The stores: a state for every pod reference.
Stores ==
    { f \in [PodRefs -> UNION { StoreStates(r) : r \in PodRefs }] :
        \A r \in PodRefs : f[r] \in StoreStates(r) }

Init ==
    /\ store \in Stores
    /\ registry = [r \in PodRefs |-> "none"]
    /\ nodePools = [r \in PodRefs |-> 0]
    /\ InitInvocations

(***************************************************************************)
(* The delivery mechanism starts invocation i for the pod reference r.     *)
(* Invocations are numbered in the order they are started.                 *)
(***************************************************************************)
Start(i, r) ==
    /\ pc[i] = "idle"
    /\ \A j \in Invs : j < i => pc[j] # "idle"
    /\ pc' = [pc EXCEPT ![i] = "Get"]
    /\ req' = [req EXCEPT ![i] = r]
    /\ doneAtStart' = [doneAtStart EXCEPT ![i] = {j \in Invs : pc[j] = "done"}]
    /\ UNCHANGED <<dropped, getErr, storeAtGet, store, registry, nodePools, pod, err,
                   ret, events, getCalls, providerCalls, cancelledAt,
                   afterCancel>>

\* Get answered from the snapshot an earlier invocation fetched for the same
\* reference, when there is one: a cache of pod state kept across invocations.
GetAnswersCached(i) ==
    IF \E j \in Invs : j # i /\ req[j] = req[i] /\ getCalls[j] > 0 /\ getErr[j] = Nil
    THEN {[err |-> Nil, pod |-> pod[j]] :
            j \in {k \in Invs : k # i /\ req[k] = req[i] /\ getCalls[k] > 0 /\ getErr[k] = Nil}}
    ELSE IF store[req[i]] = Absent
         THEN {[err |-> <<"NotFound">>, pod |-> ZeroPod]}
         ELSE {[err |-> Nil, pod |-> store[req[i]][1]]}

(***************************************************************************)
(* The store's answers to Get(ctx, key, &pod): the error, and the object   *)
(* read into pod.  A cancelled ctx may make Get fail with the context's    *)
(* error; a Get served from the cache does not look at ctx.                *)
(***************************************************************************)
GetAnswers(i) ==
    (IF store[req[i]] = Absent
     THEN {[err |-> <<"NotFound">>, pod |-> ZeroPod]}
     ELSE {[err |-> Nil, pod |-> store[req[i]][1]]})
    \cup {[err |-> e, pod |-> ZeroPod] : e \in TransientGetErrors}
    \cup (IF Cancelled(i)
          THEN {[err |-> e, pod |-> ZeroPod] : e \in ContextErrors}
          ELSE {})

\* Lines 59-66 run under a lock shared by all invocations: the fetch waits
\* until no other invocation is under way.
GetUnderLock(i) ==
    /\ \A j \in Invs : j # i => pc[j] \in {"idle", "done"}
    /\ pc[i] = "Get"
    /\ \E a \in GetAnswers(i) :
         /\ pod' = [pod EXCEPT ![i] = a.pod]
         /\ getErr' = [getErr EXCEPT ![i] = a.err]
         /\ IF a.err # Nil
            THEN /\ ret' = [ret EXCEPT ![i] = GetErrorReturn(a.err)]
                 /\ pc' = [pc EXCEPT ![i] = "done"]
            ELSE /\ pc' = [pc EXCEPT ![i] = "Fetched"]
                 /\ UNCHANGED ret
    /\ getCalls' = [getCalls EXCEPT ![i] = @ + 1]
    /\ storeAtGet' = [storeAtGet EXCEPT ![i] = store[req[i]]]
    /\ UNCHANGED <<store, registry, nodePools, req, err, events, dropped,
                   providerCalls, doneAtStart, cancelledAt, afterCancel>>

\* Lines 59-66
Get(i) ==
    /\ pc[i] = "Get"
    /\ \E a \in GetAnswers(i) :
         /\ pod' = [pod EXCEPT ![i] = a.pod]
         /\ getErr' = [getErr EXCEPT ![i] = a.err]
         /\ IF a.err # Nil
            THEN /\ ret' = [ret EXCEPT ![i] = GetErrorReturn(a.err)]
                 /\ pc' = [pc EXCEPT ![i] = "done"]
            ELSE /\ pc' = [pc EXCEPT ![i] = "Fetched"]
                 /\ UNCHANGED ret
    /\ getCalls' = [getCalls EXCEPT ![i] = @ + 1]
    /\ storeAtGet' = [storeAtGet EXCEPT ![i] = store[req[i]]]
    /\ UNCHANGED <<store, registry, nodePools, req, err, events, dropped,
                   providerCalls, doneAtStart, cancelledAt, afterCancel>>

\* Lines 68-72
CheckEligibility(i) ==
    /\ pc[i] = "Fetched"
    /\ IF ShouldIgnore(pod[i])
       THEN /\ ret' = [ret EXCEPT ![i] = Return(ZeroResult, Nil)]
            /\ pc' = [pc EXCEPT ![i] = "done"]
       ELSE /\ pc' = [pc EXCEPT ![i] = "Ensuring"]
            /\ UNCHANGED ret
    /\ UNCHANGED <<dropped, getErr, storeAtGet, store, registry, nodePools, req, pod,
                   err, events, getCalls, providerCalls, doneAtStart,
                   cancelledAt, afterCancel>>

\* The side effect what, noted when the invocation's ctx is already cancelled.
NoteEffect(i, what) ==
    afterCancel' = [afterCancel EXCEPT ![i] = IF Cancelled(i) THEN @ \cup {what} ELSE @]

\* Lines 74-75 without the event of line 75.
RecordEnsuringNoEvent(i) ==
    /\ pc[i] = "Ensuring"
    /\ pc' = [pc EXCEPT ![i] = "CallProvider"]
    /\ UNCHANGED <<dropped, getErr, storeAtGet, store, registry, nodePools, req, pod,
                   err, ret, events, getCalls, providerCalls, doneAtStart,
                   cancelledAt, afterCancel>>

\* Lines 74-75 followed by an r.Update(ctx, &pod) that writes the fetched
\* snapshot back to the store.
RecordEnsuringUpdatingPod(i) ==
    /\ pc[i] = "Ensuring"
    /\ events' = [events EXCEPT ![i] = Append(@, EnsuringEvent(pod[i]))]
    /\ pc' = [pc EXCEPT ![i] = "CallProvider"]
    /\ NoteEffect(i, "EventEnsuringNodePool")
    /\ store' = [store EXCEPT ![req[i]] = <<pod[i]>>]
    /\ UNCHANGED <<dropped, getErr, storeAtGet, registry, nodePools, req, pod, err,
                   ret, getCalls, providerCalls, doneAtStart, cancelledAt>>

\* Lines 74-75
RecordEnsuring(i) ==
    /\ pc[i] = "Ensuring"
    /\ events' = [events EXCEPT ![i] = Append(@, EnsuringEvent(pod[i]))]
    /\ pc' = [pc EXCEPT ![i] = "CallProvider"]
    /\ NoteEffect(i, "EventEnsuringNodePool")
    /\ UNCHANGED <<dropped, getErr, storeAtGet, store, registry, nodePools, req, pod,
                   err, ret, getCalls, providerCalls, doneAtStart, cancelledAt>>

(***************************************************************************)
(* The provider, an idempotent implementation of EnsureNodePoolForPod: it  *)
(* keys its bookkeeping on the pod's identity, answers a duplicate-request *)
(* error while a request for the pod is outstanding or completed, and      *)
(* otherwise creates the node pool or fails.                               *)
(***************************************************************************)
\* Line 76, the call: the provider checks and marks its bookkeeping at once.
CallProvider(i) ==
    /\ pc[i] = "CallProvider"
    /\ providerCalls' = [providerCalls EXCEPT ![i] = @ + 1]
    /\ NoteEffect(i, "EnsureNodePoolForPod")
    /\ IF registry[pod[i].ref] # "none"
       THEN /\ \E e \in DuplicateErrors : err' = [err EXCEPT ![i] = e]
            /\ pc' = [pc EXCEPT ![i] = "Answered"]
            /\ UNCHANGED registry
       ELSE /\ registry' = [registry EXCEPT ![pod[i].ref] = "creating"]
            /\ pc' = [pc EXCEPT ![i] = "InProvider"]
            /\ UNCHANGED err
    /\ UNCHANGED <<dropped, getErr, storeAtGet, store, nodePools, req, pod, ret,
                   events, getCalls, doneAtStart, cancelledAt>>

\* Line 76, the answer of the call that creates the node pool.
ProviderAnswers(i) ==
    /\ pc[i] = "InProvider"
    /\ \E e \in {Nil} \cup ProvisioningErrors :
         /\ err' = [err EXCEPT ![i] = e]
         /\ IF e = Nil
            THEN /\ nodePools' = [nodePools EXCEPT ![pod[i].ref] = @ + 1]
                 /\ registry' = [registry EXCEPT ![pod[i].ref] = "created"]
            ELSE /\ registry' = [registry EXCEPT ![pod[i].ref] = "none"]
                 /\ UNCHANGED nodePools
    /\ pc' = [pc EXCEPT ![i] = "Answered"]
    /\ UNCHANGED <<dropped, getErr, storeAtGet, store, req, pod, ret, events,
                   getCalls, providerCalls, doneAtStart, cancelledAt,
                   afterCancel>>

\* Lines 76-87 with a retry inside Reconcile: a failed call is made again.
HandleAnswerRetry(i) ==
    /\ pc[i] = "Answered"
    /\ IF err[i] # Nil /\ ~ErrorsIs(err[i], ErrDuplicateRequest)
       THEN /\ pc' = [pc EXCEPT ![i] = "CallProvider"]
            /\ UNCHANGED <<events, ret>>
       ELSE /\ events' = [events EXCEPT ![i] = @ \o EventsAfterEnsure(pod[i], err[i])]
            /\ ret' = [ret EXCEPT ![i] = ReturnAfterEnsure(err[i])]
            /\ pc' = [pc EXCEPT ![i] = "done"]
    /\ UNCHANGED <<dropped, getErr, storeAtGet, store, registry, nodePools, req, pod,
                   err, getCalls, providerCalls, doneAtStart, cancelledAt,
                   afterCancel>>

\* Lines 76-87 with the recorder's failure taken for a failure of the
\* reconciliation: a starting event that was not recorded is returned as an error.
HandleAnswerEmitErrorReturned(i) ==
    /\ pc[i] = "Answered"
    /\ events' = [events EXCEPT ![i] = @ \o EventsAfterEnsure(pod[i], err[i])]
    /\ ret' = [ret EXCEPT ![i] = IF 1 \in dropped[i]
                                  THEN Return(ZeroResult, <<"recording event">>)
                                  ELSE ReturnAfterEnsure(err[i])]
    /\ pc' = [pc EXCEPT ![i] = "done"]
    /\ UNCHANGED <<dropped, getErr, storeAtGet, store, registry, nodePools, req, pod,
                   err, getCalls, providerCalls, doneAtStart, cancelledAt, afterCancel>>

\* Lines 76-87
HandleAnswer(i) ==
    /\ pc[i] = "Answered"
    /\ events' = [events EXCEPT ![i] = @ \o EventsAfterEnsure(pod[i], err[i])]
    /\ ret' = [ret EXCEPT ![i] = ReturnAfterEnsure(err[i])]
    /\ pc' = [pc EXCEPT ![i] = "done"]
    /\ afterCancel' = [afterCancel EXCEPT ![i] =
                         IF Cancelled(i) /\ EventsAfterEnsure(pod[i], err[i]) # <<>>
                         THEN @ \cup {"EventAfterEnsure"} ELSE @]
    /\ UNCHANGED <<dropped, getErr, storeAtGet, store, registry, nodePools, req, pod,
                   err, getCalls, providerCalls, doneAtStart, cancelledAt>>

(***************************************************************************)
(* The store changes under the invocations: the scheduler places the pod,  *)
(* or the pod is deleted.                                                  *)
(***************************************************************************)
PodScheduled(r) ==
    /\ store[r] = <<EligiblePod(r)>>
    /\ store' = [store EXCEPT ![r] = <<RunningPod(r)>>]
    /\ UNCHANGED <<dropped, getErr, storeAtGet, registry, nodePools, pc, req, pod,
                   err, ret, events, getCalls, providerCalls, doneAtStart,
                   cancelledAt, afterCancel>>

PodDeleted(r) ==
    /\ store[r] # Absent
    /\ store' = [store EXCEPT ![r] = Absent]
    /\ UNCHANGED <<dropped, getErr, storeAtGet, registry, nodePools, pc, req, pod,
                   err, ret, events, getCalls, providerCalls, doneAtStart,
                   cancelledAt, afterCancel>>

\* The caller cancels the ctx of a running invocation.
Cancel(i) ==
    /\ pc[i] \notin {"idle", "done"}
    /\ ~Cancelled(i)
    /\ cancelledAt' = [cancelledAt EXCEPT ![i] = pc[i]]
    /\ UNCHANGED <<dropped, getErr, storeAtGet, store, registry, nodePools, pc, req,
                   pod, err, ret, events, getCalls, providerCalls, doneAtStart,
                   afterCancel>>

\* The recorder fails to record an event invocation i emitted.  Event and
\* Eventf return nothing: the failure is not reported to Reconcile.
EmitFails(i) ==
    /\ \E k \in DOMAIN events[i] \ dropped[i] :
         dropped' = [dropped EXCEPT ![i] = @ \cup {k}]
    /\ UNCHANGED <<store, registry, nodePools, pc, req, pod, getErr, storeAtGet, err,
                   ret, events, getCalls, providerCalls, doneAtStart, cancelledAt,
                   afterCancel>>

\* One step of invocation i.
Step(i) ==
    \/ \E r \in PodRefs : Start(i, r)
    \/ Get(i)
    \/ CheckEligibility(i)
    \/ RecordEnsuring(i)
    \/ CallProvider(i)
    \/ ProviderAnswers(i)
    \/ HandleAnswer(i)

Next ==
    \/ \E i \in Invs : Step(i)
    \/ \E r \in PodRefs : PodScheduled(r)
    \/ \E r \in PodRefs : PodDeleted(r)

Spec == Init /\ [][Next]_vars

(***************************************************************************)
(* One invocation on every pod snapshot: the store holds any snapshot      *)
(* under default/pod-a, and the provider may know the pod already.         *)
(***************************************************************************)
InitElig ==
    /\ \E p \in PodSnapshots("default/pod-a") :
         store = [r \in PodRefs |-> IF r = p.ref THEN <<p>> ELSE Absent]
    /\ \E known \in BOOLEAN :
         /\ registry = [r \in PodRefs |->
                          IF known /\ r = "default/pod-a" THEN "created" ELSE "none"]
         /\ nodePools = [r \in PodRefs |->
                           IF known /\ r = "default/pod-a" THEN 1 ELSE 0]
    /\ InitInvocations

NextElig == Step(1)

SpecElig == InitElig /\ [][NextElig]_vars

(***************************************************************************)
(* The invocations with a recorder that may fail to record events, over a  *)
(* store that does not change meanwhile.                                   *)
(***************************************************************************)
NextEmit ==
    \/ \E i \in Invs : Step(i)
    \/ \E i \in Invs : EmitFails(i)

SpecEmit == Init /\ [][NextEmit]_vars

(***************************************************************************)
(* The invocations under a caller that may cancel their ctx.               *)
(***************************************************************************)
NextCtx ==
    \/ Next
    \/ \E i \in Invs : Cancel(i)

SpecCtx == Init /\ [][NextCtx]_vars

(***************************************************************************)
(* The invocations under a delivery mechanism that delivers the            *)
(* notification of every pod in the store and delivers it again whenever   *)
(* Reconcile returned an error, over a store that does not change.  The    *)
(* failures of the store and of the provider are transient: one happens    *)
(* only while an invocation is left to deliver the notification again.     *)
(***************************************************************************)
\* The notification for r is to be delivered: it never was, or an invocation
\* for r returned an error and none was started for r since.
NeedsDelivery(r) ==
    \/ /\ store[r] # Absent
       /\ \A i \in Invs : pc[i] # "idle" => req[i] # r
    \/ \E j \in Invs :
         /\ pc[j] = "done" /\ req[j] = r /\ ret[j].err # Nil
         /\ \A i \in Invs : pc[i] # "idle" /\ req[i] = r => j \notin doneAtStart[i]

\* Invocation i holds an answer of the provider that it will return as an error.
FailurePending(i) == pc[i] = "Answered" /\ ReturnAfterEnsure(err[i]).err # Nil

\* The invocations not yet started, less one for every notification that is
\* or will be due.
SpareInvocations ==
    Cardinality({i \in Invs : pc[i] = "idle"})
    - Cardinality({r \in PodRefs :
                     NeedsDelivery(r) \/ \E j \in Invs : FailurePending(j) /\ req[j] = r})

\* The delivery (again, after an error) of the notification for r.
Deliver(r) ==
    /\ NeedsDelivery(r)
    /\ \E i \in Invs : Start(i, r)

\* A replayed notification for r, delivered although none is due.
Replay(r) ==
    /\ ~NeedsDelivery(r)
    /\ SpareInvocations > 0
    /\ \E i \in Invs : Start(i, r)

\* Lines 59-66 over a store whose failures are transient.
GetLive(i) ==
    /\ Get(i)
    /\ getErr'[i] \notin {Nil, <<"NotFound">>} => SpareInvocations > 0

\* Line 76 answered by a provider whose failures are transient.
ProviderAnswersLive(i) ==
    /\ ProviderAnswers(i)
    /\ err'[i] # Nil => SpareInvocations > 0

Run(i) ==
    \/ GetLive(i)
    \/ CheckEligibility(i)
    \/ RecordEnsuring(i)
    \/ CallProvider(i)
    \/ ProviderAnswersLive(i)
    \/ HandleAnswer(i)

NextLive ==
    \/ \E r \in PodRefs : Deliver(r)
    \/ \E r \in PodRefs : Replay(r)
    \/ \E i \in Invs : Run(i)

\* A due notification is delivered, and a started invocation runs to its return.
SpecLive ==
    /\ Init
    /\ [][NextLive]_vars
    /\ \A r \in PodRefs : WF_vars(Deliver(r))
    /\ \A i \in Invs : WF_vars(Run(i))


(***************************************************************************)
(* Vocabulary of the properties.                                           *)
(***************************************************************************)
Done(i) == pc[i] = "done"

\* Invocation i called the provider and has its answer.
Answered(i) == providerCalls[i] > 0 /\ pc[i] \in {"Answered", "done"}

\* The provider's answer is of the duplicate-request kind.
IsDuplicateKind(e) == e \in DuplicateErrors

\* The provider's answer is an error of another kind.
IsOtherFailure(e) == e # Nil /\ e \notin DuplicateErrors

\* The events of invocation i with the given type or reason.
EventsOfType(i, type) == {k \in DOMAIN events[i] : events[i][k].type = type}
EventsOfReason(i, reason) == {k \in DOMAIN events[i] : events[i][k].reason = reason}

Success == Return(ZeroResult, Nil)

\* Neither invocation had returned when the other was started.
Concurrent(i, j) == i # j /\ i \notin doneAtStart[j] /\ j \notin doneAtStart[i]

\* The four sub-predicates of eligibility.
AllFourHold(p) ==
    /\ isPending(p)
    /\ isUnschedulable(p)
    /\ doesRequestResource(p, ResourceType)
    /\ hasNodeSelectors(p, GKETPUNodeSelector)

\* The number of the four sub-predicates that fail on p.
FailedSubPredicates(p) ==
    {n \in {"isPending", "isUnschedulable", "doesRequestResource", "hasNodeSelectors"} :
        \/ n = "isPending" /\ ~isPending(p)
        \/ n = "isUnschedulable" /\ ~isUnschedulable(p)
        \/ n = "doesRequestResource" /\ ~doesRequestResource(p, ResourceType)
        \/ n = "hasNodeSelectors" /\ ~hasNodeSelectors(p, GKETPUNodeSelector)}

\* Invocation i fetched a pod snapshot.
Fetched(i) == getCalls[i] > 0 /\ getErr[i] = Nil

(***************************************************************************)
(* C1.  As claimed: when the provider answers an eligible pod with an      *)
(* error that is not a duplicate request, Reconcile returns a non-nil      *)
(* error with requeue=true and has emitted exactly one Warning.            *)
(***************************************************************************)
C1_FailureReturnsRequeueTrue ==
    \A i \in Invs :
        Done(i) /\ Answered(i) /\ IsOtherFailure(err[i]) =>
            /\ ret[i].err # Nil
            /\ ret[i].result.Requeue = TRUE
            /\ Cardinality(EventsOfType(i, "Warning")) = 1

(***************************************************************************)
(* C1, amended: when the provider answers an eligible pod with an error    *)
(* that is not a duplicate request, Reconcile returns that error, non-nil, *)
(* with the zero Result (Requeue false), and has emitted exactly one       *)
(* Warning, which carries the error's text.                                *)
(***************************************************************************)
C1_FailureReturnsError ==
    \A i \in Invs :
        Done(i) /\ Answered(i) /\ IsOtherFailure(err[i]) =>
            /\ ret[i].err # Nil
            /\ ret[i].err = err[i]
            /\ ret[i].result = ZeroResult
            /\ Cardinality(EventsOfType(i, "Warning")) = 1
            /\ \A k \in EventsOfType(i, "Warning") :
                 events[i][k] = FailedEvent(pod[i], err[i])

C1_Witness ==
    \E i \in Invs :
        /\ Done(i) /\ Answered(i) /\ IsOtherFailure(err[i])
        /\ ret[i].err = <<"QuotaExceeded">>

(***************************************************************************)
(* C2.  As claimed: an invocation that triggered provisioning has emitted  *)
(* the starting event and then exactly one of the ensured and the failed   *)
(* event when it returns, whatever the provider answered.                  *)
(***************************************************************************)
C2_TrailAlwaysComplete ==
    \A i \in Invs :
        Done(i) /\ Answered(i) =>
            /\ Len(events[i]) = 2
            /\ events[i][1] = EnsuringEvent(pod[i])
            /\ events[i][2].reason \in {"EventNodePoolEnsured", "EventFailedEnsuringNodePool"}

(***************************************************************************)
(* C2, amended: an invocation that triggered provisioning has emitted the  *)
(* starting event first; when it returns, exactly one more event follows   *)
(* it if the provider answered success (ensured) or an error that is not a *)
(* duplicate request (failed), and no event follows it if the provider     *)
(* answered duplicate-request.                                             *)
(***************************************************************************)
C2_TrailUnlessDuplicate ==
    \A i \in Invs :
        /\ providerCalls[i] > 0 =>
             Len(events[i]) >= 1 /\ events[i][1] = EnsuringEvent(pod[i])
        /\ Done(i) /\ Answered(i) =>
             /\ err[i] = Nil =>
                  events[i] = <<EnsuringEvent(pod[i]), EnsuredEvent(pod[i])>>
             /\ IsOtherFailure(err[i]) =>
                  events[i] = <<EnsuringEvent(pod[i]), FailedEvent(pod[i], err[i])>>
             /\ IsDuplicateKind(err[i]) =>
                  events[i] = <<EnsuringEvent(pod[i])>>

C2_Witness ==
    \E i \in Invs :
        /\ Done(i) /\ Answered(i) /\ IsDuplicateKind(err[i])
        /\ Len(events[i]) = 1

(***************************************************************************)
(* C3.  As claimed: once the ctx of an invocation is cancelled before the  *)
(* provider call, the invocation emits no event and does not call the      *)
(* provider any more, and it returns an error.                             *)
(***************************************************************************)
C3_CancelStopsInvocation ==
    \A i \in Invs :
        cancelledAt[i] \in {"Get", "Fetched", "Ensuring", "CallProvider"} =>
            /\ afterCancel[i] = {}
            /\ Done(i) => ret[i].err # Nil

(***************************************************************************)
(* C4.  Two concurrent invocations for one pod reference, the provider     *)
(* answering success to one and duplicate-request to the other: both       *)
(* return (Requeue false, nil), the two emitted exactly one ensured event  *)
(* and no Warning, and the provider created exactly one node pool.         *)
(***************************************************************************)
C4_ConcurrentDuplicate ==
    \A i, j \in Invs :
        /\ Concurrent(i, j) /\ req[i] = req[j]
        /\ Done(i) /\ Done(j) /\ Answered(i) /\ Answered(j)
        /\ err[i] = Nil /\ IsDuplicateKind(err[j])
        => /\ ret[i] = Success /\ ret[j] = Success
           /\ Cardinality(EventsOfReason(i, "EventNodePoolEnsured")) = 1
           /\ Cardinality(EventsOfReason(j, "EventNodePoolEnsured")) = 0
           /\ EventsOfType(i, "Warning") = {} /\ EventsOfType(j, "Warning") = {}
           /\ nodePools[req[i]] = 1

C4_Witness ==
    \E i, j \in Invs :
        /\ Concurrent(i, j) /\ req[i] = req[j]
        /\ Done(i) /\ Done(j) /\ Answered(i) /\ Answered(j)
        /\ err[i] = Nil /\ err[j] = <<"creating node pool", ErrDuplicateRequest>>
        /\ nodePools[req[i]] = 1

(***************************************************************************)
(* C5.  As claimed: of two invocations in sequence for one eligible pod,   *)
(* the provider creates at most one node pool, and the second invocation   *)
(* gets duplicate-request and returns (Requeue false, nil).                *)
(***************************************************************************)
C5_SecondAlwaysDuplicate ==
    \A i, j \in Invs :
        /\ i \in doneAtStart[j] /\ req[i] = req[j]
        /\ Answered(i) /\ Done(j) /\ Answered(j)
        => /\ nodePools[req[i]] <= 1
           /\ IsDuplicateKind(err[j])
           /\ ret[j] = Success

(***************************************************************************)
(* C5, amended: of two invocations in sequence for one eligible pod, the   *)
(* provider creates at most one node pool; if the provider call of the     *)
(* first succeeded, the second gets duplicate-request and returns          *)
(* (Requeue false, nil).                                                   *)
(***************************************************************************)
C5_SecondDuplicateAfterSuccess ==
    \A i, j \in Invs :
        /\ i \in doneAtStart[j] /\ req[i] = req[j]
        /\ Answered(i) /\ Done(j) /\ Answered(j)
        => /\ nodePools[req[i]] <= 1
           /\ err[i] = Nil =>
                /\ IsDuplicateKind(err[j])
                /\ ret[j] = Success
                /\ nodePools[req[i]] = 1

C5_Witness ==
    \E i, j \in Invs :
        /\ i \in doneAtStart[j] /\ req[i] = req[j]
        /\ Answered(i) /\ err[i] = Nil
        /\ Done(j) /\ Answered(j) /\ IsDuplicateKind(err[j])
        /\ ret[j] = Success

(***************************************************************************)
(* C6.  The provider is called if and only if the fetched pod satisfies    *)
(* all four sub-predicates; when one of them fails, whatever the others    *)
(* are, the invocation returns (Requeue false, nil) without a provider     *)
(* call and without an event.                                              *)
(***************************************************************************)
C6_ProviderIffEligible ==
    \A i \in Invs :
        /\ providerCalls[i] > 0 => Fetched(i) /\ AllFourHold(pod[i])
        /\ Done(i) /\ Fetched(i) /\ AllFourHold(pod[i]) => providerCalls[i] = 1
        /\ Done(i) /\ Fetched(i) /\ ~AllFourHold(pod[i]) =>
             /\ ret[i] = Success
             /\ providerCalls[i] = 0
             /\ events[i] = <<>>

C6_Witness ==
    \E i \in Invs :
        /\ Done(i) /\ Fetched(i)
        /\ FailedSubPredicates(pod[i]) = {"hasNodeSelectors"}
        /\ ret[i] = Success /\ providerCalls[i] = 0 /\ events[i] = <<>>

(***************************************************************************)
(* C7.  When Get answers not-found, Reconcile returns (Requeue false,      *)
(* nil), emits no event and does not call the provider.                    *)
(***************************************************************************)
C7_NotFoundIsSuccess ==
    \A i \in Invs :
        getCalls[i] > 0 /\ getErr[i] = <<"NotFound">> =>
            /\ Done(i)
            /\ ret[i] = Success
            /\ events[i] = <<>>
            /\ providerCalls[i] = 0

C7_Witness ==
    \E i \in Invs :
        /\ Done(i) /\ getErr[i] = <<"NotFound">> /\ store[req[i]] = Absent
        /\ ret[i] = Success

(***************************************************************************)
(* C8.  When Get fails with an error other than not-found, Reconcile       *)
(* returns that error, wrapped and non-nil, emits no event and does not    *)
(* call the provider.                                                      *)
(***************************************************************************)
C8_FetchErrorPropagated ==
    \A i \in Invs :
        getCalls[i] > 0 /\ getErr[i] # Nil /\ getErr[i] # <<"NotFound">> =>
            /\ Done(i)
            /\ ret[i].err # Nil
            /\ ret[i].err = <<"getting pod">> \o getErr[i]
            /\ events[i] = <<>>
            /\ providerCalls[i] = 0

C8_Witness ==
    \E i \in Invs :
        /\ Done(i) /\ getErr[i] = <<"ServerTimeout">>
        /\ ret[i].err = <<"getting pod", "ServerTimeout">>

(***************************************************************************)
(* C9.  When the provider answers duplicate-request, Reconcile returns     *)
(* (Requeue false, nil) and has emitted neither a Warning nor the ensured  *)
(* event; every other error of the provider is returned.                   *)
(***************************************************************************)
C9_OnlyDuplicateSuppressed ==
    \A i \in Invs :
        Done(i) /\ Answered(i) =>
            /\ IsDuplicateKind(err[i]) =>
                 /\ ret[i] = Success
                 /\ EventsOfType(i, "Warning") = {}
                 /\ EventsOfReason(i, "EventNodePoolEnsured") = {}
            /\ IsOtherFailure(err[i]) => ret[i].err = err[i] /\ ret[i].err # Nil

C9_Witness ==
    \E i \in Invs :
        /\ Done(i) /\ Answered(i)
        /\ err[i] = <<"creating node pool", ErrDuplicateRequest>>
        /\ ret[i] = Success /\ EventsOfType(i, "Warning") = {}

(***************************************************************************)
(* C10.  For an eligible pod whose provider call succeeds, the invocation  *)
(* calls the provider exactly once, emits the Normal starting event and    *)
(* then the Normal ensured event, no Warning, and returns (Requeue false,  *)
(* nil).                                                                   *)
(***************************************************************************)
C10_SuccessPath ==
    \A i \in Invs :
        Done(i) /\ Answered(i) /\ err[i] = Nil =>
            /\ providerCalls[i] = 1
            /\ AllFourHold(pod[i])
            /\ events[i] = <<EnsuringEvent(pod[i]), EnsuredEvent(pod[i])>>
            /\ \A k \in DOMAIN events[i] : events[i][k].type = "Normal"
            /\ ret[i] = Success

C10_Witness ==
    \E i \in Invs :
        /\ Done(i) /\ Answered(i) /\ err[i] = Nil
        /\ Len(events[i]) = 2 /\ nodePools[pod[i].ref] = 1
        /\ ret[i] = Success

(***************************************************************************)
(* The state of an invocation in the state machine of one reconciliation,  *)
(* read off its position and, once it returned, off what it did.           *)
(***************************************************************************)
Outcome(i) ==
    CASE getErr[i] = <<"NotFound">> /\ ret[i] = Success -> "NotFound"
      [] getErr[i] # Nil /\ getErr[i] # <<"NotFound">> /\ ret[i].err # Nil -> "FetchFailed"
      [] Fetched(i) /\ providerCalls[i] = 0 /\ ret[i] = Success -> "Ignored"
      [] Answered(i) /\ err[i] = Nil /\ ret[i] = Success -> "Ensured"
      [] Answered(i) /\ IsDuplicateKind(err[i]) /\ ret[i] = Success -> "DuplicateSuppressed"
      [] Answered(i) /\ IsOtherFailure(err[i]) /\ ret[i].err = err[i] -> "Failed"
      [] OTHER -> "Undefined"

MachineState(i) ==
    CASE pc[i] = "idle" -> "NotStarted"
      [] pc[i] = "Get" -> "Start"
      [] pc[i] = "Fetched" -> "Fetched"
      [] pc[i] \in {"Ensuring", "CallProvider", "InProvider", "Answered"} -> "Ensuring"
      [] OTHER -> Outcome(i)

\* Start -> Fetched -> {Ignored | Ensuring -> {Ensured | DuplicateSuppressed | Failed}}
MachineEdges ==
    { <<"NotStarted", "Start">>, <<"Start", "Fetched">>,
      <<"Fetched", "Ignored">>, <<"Fetched", "Ensuring">>,
      <<"Ensuring", "Ensured">>, <<"Ensuring", "DuplicateSuppressed">>,
      <<"Ensuring", "Failed">> }

TerminalStates == {"Ignored", "Ensured", "DuplicateSuppressed", "Failed"}

(***************************************************************************)
(* C11.  As claimed: every invocation moves along Start -> Fetched ->      *)
(* {Ignored | Ensuring -> {Ensured | DuplicateSuppressed | Failed}} only,  *)
(* has returned exactly when it is in one of the four terminal states, and *)
(* never leaves a terminal state.                                          *)
(***************************************************************************)
C11_StateMachine ==
    [][\A i \in Invs :
          /\ \/ MachineState(i)' = MachineState(i)
             \/ <<MachineState(i), MachineState(i)'>> \in MachineEdges
          /\ Done(i)' <=> MachineState(i)' \in TerminalStates]_vars

(***************************************************************************)
(* C11, amended: every invocation moves along Start -> {NotFound |         *)
(* FetchFailed | Fetched -> {Ignored | Ensuring -> {Ensured |              *)
(* DuplicateSuppressed | Failed}}} only: a failed fetch ends it from Start,*)
(* as success on not-found and with the fetch error otherwise.  It has     *)
(* returned exactly when it is in one of these six terminal states, never  *)
(* leaves a terminal state, and reaches Ensured, DuplicateSuppressed or    *)
(* Failed only from Ensuring.                                              *)
(***************************************************************************)
C11_StateMachineWithFetchExits ==
    [][\A i \in Invs :
          /\ \/ MachineState(i)' = MachineState(i)
             \/ <<MachineState(i), MachineState(i)'>> \in
                   MachineEdges \cup {<<"Start", "NotFound">>, <<"Start", "FetchFailed">>}
          /\ Done(i)' <=> MachineState(i)' \in TerminalStates \cup {"NotFound", "FetchFailed"}]_vars

C11_Witness ==
    \E i, j \in Invs :
        /\ MachineState(i) = "FetchFailed"
        /\ MachineState(j) = "Ensured"

(***************************************************************************)
(* C12.  An invocation decides from the snapshot the store holds when it   *)
(* fetches: it calls the provider only if the store held, under its        *)
(* reference and at its own Get, a pod for which all four sub-predicates   *)
(* hold.  An invocation delivered for a pod that was deleted or was no     *)
(* longer eligible at its Get never calls the provider, whatever earlier   *)
(* invocations for the same reference fetched.                             *)
(***************************************************************************)
C12_DecidesFromFreshFetch ==
    \A i \in Invs :
        /\ getCalls[i] > 0 /\ getErr[i] = Nil =>
             storeAtGet[i] # Absent /\ pod[i] = storeAtGet[i][1]
        /\ pc[i] \in {"Ensuring", "CallProvider", "InProvider", "Answered"}
             \/ providerCalls[i] > 0 =>
             /\ storeAtGet[i] # Absent
             /\ storeAtGet[i][1].ref = req[i]
             /\ AllFourHold(storeAtGet[i][1])
        /\ Done(i) /\ (storeAtGet[i] = Absent \/ storeAtGet[i] = <<RunningPod(req[i])>>) =>
             providerCalls[i] = 0 /\ events[i] = <<>>

C12_Witness ==
    \E i, j \in Invs :
        /\ i # j /\ req[i] = req[j]
        /\ Done(j) /\ providerCalls[j] = 1
        /\ Done(i) /\ getErr[i] = Nil /\ storeAtGet[i] = <<RunningPod(req[i])>>
        /\ providerCalls[i] = 0

(***************************************************************************)
(* C13.  Invocations for different pod references are independent.  An     *)
(* invocation under way can always take its next step, wherever the other  *)
(* invocations are (in their fetch, in the provider).  An invocation whose *)
(* reference no other invocation has finds the provider's bookkeeping for  *)
(* its pod untouched, is never answered duplicate-request, and ends as it  *)
(* would alone: the node pool of its pod exists exactly if it ended in     *)
(* Ensured.                                                                *)
(***************************************************************************)
Unrelated(j) == \A i \in Invs : i # j => req[i] # req[j]

C13_IndependentAcrossPods ==
    \A j \in Invs :
        /\ pc[j] \notin {"idle", "done"} => ENABLED Step(j)
        /\ pc[j] # "idle" /\ Unrelated(j) =>
             /\ pc[j] \in {"Get", "Fetched", "Ensuring", "CallProvider"} =>
                  registry[req[j]] = "none" /\ nodePools[req[j]] = 0
             /\ Answered(j) => ~IsDuplicateKind(err[j])
             /\ Done(j) =>
                  /\ Outcome(j) \in {"NotFound", "FetchFailed", "Ignored", "Ensured", "Failed"}
                  /\ nodePools[req[j]] = (IF Outcome(j) = "Ensured" THEN 1 ELSE 0)

C13_Witness ==
    \E i, j \in Invs :
        /\ i < j /\ req[i] # req[j]
        /\ pc[i] = "InProvider"
        /\ Done(j) /\ Outcome(j) = "Ensured"
        /\ events[j] = <<EnsuringEvent(pod[j]), EnsuredEvent(pod[j])>>

(***************************************************************************)
(* C14.  No retry inside Reconcile: an invocation calls r.Get at most once *)
(* and EnsureNodePoolForPod at most once; when the call failed, the        *)
(* invocation returns having made that one call, and a further call for    *)
(* the pod is made by another invocation only.                             *)
(***************************************************************************)
C14_NoInternalRetry ==
    \A i \in Invs :
        /\ getCalls[i] <= 1
        /\ providerCalls[i] <= 1
        /\ providerCalls[i] > 0 => getCalls[i] = 1
        /\ Done(i) /\ Answered(i) /\ IsOtherFailure(err[i]) =>
             providerCalls[i] = 1 /\ ret[i].err = err[i]

C14_Witness ==
    \E i, j \in Invs :
        /\ i \in doneAtStart[j] /\ req[i] = req[j]
        /\ Done(i) /\ IsOtherFailure(err[i]) /\ providerCalls[i] = 1 /\ getCalls[i] = 1
        /\ providerCalls[j] = 1 /\ Done(j) /\ err[j] = Nil

(***************************************************************************)
(* C15.  No step of an invocation changes the store: the pod is neither    *)
(* updated, created nor deleted by Reconcile.  Outside its own locals an   *)
(* invocation changes only the recorded events and, in the call of         *)
(* EnsureNodePoolForPod, the provider's state.                             *)
(***************************************************************************)
C15_StoreUnchanged ==
    [][\A i \in Invs :
          pc'[i] # pc[i] =>
              /\ store' = store
              /\ registry' # registry \/ nodePools' # nodePools =>
                   pc[i] \in {"CallProvider", "InProvider"}]_vars

C15_Witness ==
    \E i \in Invs :
        /\ Done(i) /\ Outcome(i) = "Ensured"
        /\ store[req[i]] = storeAtGet[i]
        /\ store[req[i]] = <<EligiblePod(req[i])>>

(***************************************************************************)
(* C16.  The recorder failing to record an event does not change what      *)
(* Reconcile does: two invocations with the same answers (of Get, of the   *)
(* eligibility test, of the provider) return the same (Result, error) and  *)
(* agree on calling the provider, whichever of their events were recorded; *)
(* and an invocation whose events were lost returns what its answers       *)
(* alone determine.                                                        *)
(***************************************************************************)
SameAnswers(i, j) ==
    /\ getErr[i] = getErr[j]
    /\ AllFourHold(pod[i]) = AllFourHold(pod[j])
    /\ err[i] = err[j]

C16_EmitFailureIgnored ==
    \A i \in Invs :
        /\ \A j \in Invs :
             Done(i) /\ Done(j) /\ SameAnswers(i, j) =>
                 ret[i] = ret[j] /\ providerCalls[i] = providerCalls[j]
        /\ Done(i) /\ dropped[i] # {} =>
             /\ providerCalls[i] = 1
             /\ ret[i].err = (IF IsOtherFailure(err[i]) THEN err[i] ELSE Nil)
             /\ ret[i].result = ZeroResult

C16_Witness ==
    \E i, j \in Invs :
        /\ Done(i) /\ Done(j) /\ SameAnswers(i, j)
        /\ Outcome(i) = "Ensured" /\ dropped[i] = {1, 2} /\ dropped[j] = {}
        /\ ret[i] = ret[j]

(***************************************************************************)
(* C17.  A pod no container of which requests a strictly positive quantity *)
(* of the configured resource type (no container at all, or the resource   *)
(* listed with quantity zero only) does not request the resource, is not   *)
(* eligible and never causes a provider call: the invocation that fetched  *)
(* it returns (Requeue false, nil) without an event.                       *)
(***************************************************************************)
NoPositiveRequest(p) ==
    \A k \in 1..Len(p.containers) :
        \A n \in DOMAIN p.containers[k] :
            n = ResourceType => p.containers[k][n] = 0

C17_PositiveQuantityNeeded ==
    \A i \in Invs :
        Fetched(i) /\ NoPositiveRequest(pod[i]) =>
            /\ ~doesRequestResource(pod[i], ResourceType)
            /\ pc[i] \in {"Fetched", "done"}
            /\ providerCalls[i] = 0
            /\ events[i] = <<>>
            /\ Done(i) => ret[i] = Success

C17_Witness ==
    \E i \in Invs :
        /\ Done(i) /\ Fetched(i)
        /\ Len(pod[i].containers) = 1
        /\ ResourceType \in DOMAIN pod[i].containers[1]
        /\ pod[i].containers[1][ResourceType] = 0
        /\ FailedSubPredicates(pod[i]) = {"doesRequestResource"}
        /\ providerCalls[i] = 0 /\ ret[i] = Success

(***************************************************************************)
(* C18.  Within one invocation the 'starting' event is recorded before     *)
(* EnsureNodePoolForPod is called; an 'ensured' or 'failed' event is       *)
(* recorded only once that call has returned, and only after the           *)
(* 'starting' event; no invocation records more than two events.           *)
(***************************************************************************)
OutcomeReasons == {"EventNodePoolEnsured", "EventFailedEnsuringNodePool"}

C18_NotificationOrder ==
    \A i \in Invs :
        /\ providerCalls[i] > 0 =>
             /\ events[i] # <<>>
             /\ events[i][1] = EnsuringEvent(pod[i])
        /\ \A k \in DOMAIN events[i] :
             events[i][k].reason \in OutcomeReasons =>
                 /\ Answered(i)
                 /\ k > 1
                 /\ events[i][1].reason = "EventEnsuringNodePool"
        /\ Len(events[i]) <= 2

C18_Witness ==
    \E i \in Invs :
        /\ Done(i) /\ Answered(i)
        /\ Len(events[i]) = 2
        /\ events[i][1].reason = "EventEnsuringNodePool"
        /\ events[i][2].reason = "EventNodePoolEnsured"

(***************************************************************************)
(* C19.  An invocation that returned has recorded a Warning event if and   *)
(* only if it returns the provider's error that is not a duplicate         *)
(* request: one that returns nil recorded no Warning, and one that returns *)
(* a fetch error recorded no event at all.                                 *)
(***************************************************************************)
ReturnsProviderFailure(i) ==
    Answered(i) /\ IsOtherFailure(err[i]) /\ ret[i].err = err[i]

C19_WarningIffFailure ==
    \A i \in Invs :
        /\ EventsOfType(i, "Warning") # {} => Done(i)
        /\ Done(i) =>
             /\ EventsOfType(i, "Warning") # {} <=> ReturnsProviderFailure(i)
             /\ ret[i].err = Nil => EventsOfType(i, "Warning") = {}
             /\ getErr[i] # Nil /\ ret[i].err # Nil => events[i] = <<>>

C19_Witness ==
    \E i, j \in Invs :
        /\ Done(i) /\ ReturnsProviderFailure(i)
        /\ events[i][2] = FailedEvent(pod[i], err[i])
        /\ Done(j) /\ getErr[j] # Nil /\ ret[j].err # Nil /\ events[j] = <<>>

(***************************************************************************)
(* C20.  Under a delivery mechanism that delivers a notification again     *)
(* whenever Reconcile returned an error, for a pod that stays eligible and *)
(* a provider and store whose failures are transient, some invocation for  *)
(* the pod eventually ends Ensured or DuplicateSuppressed, and the node    *)
(* pools created for the pod over the whole run are exactly one.           *)
(***************************************************************************)
StaysEligible(r) == store[r] = <<EligiblePod(r)>>

Settled(r) ==
    /\ nodePools[r] = 1
    /\ \E i \in Invs :
         Done(i) /\ req[i] = r /\ Outcome(i) \in {"Ensured", "DuplicateSuppressed"}

C20_EventuallyEnsuredOnce ==
    /\ [](\A r \in PodRefs : nodePools[r] <= 1)
    /\ <>[](\A r \in PodRefs : StaysEligible(r) => Settled(r))

C20_Witness ==
    \E i, j \in Invs, r \in PodRefs :
        /\ StaysEligible(r) /\ req[i] = r /\ req[j] = r
        /\ Done(j) /\ Outcome(j) = "Failed"
        /\ j \in doneAtStart[i]
        /\ Done(i) /\ Outcome(i) = "Ensured"
        /\ nodePools[r] = 1

====
